---- MODULE Spec2Model ----
(***************************************************************************)
(* Donation service (src/server.js and its earlier variant                 *)
(* src/unnamed/part_000): creation of a PIX charge at Veopag, the          *)
(* in-memory "db" Map, the Veopag webhook, the sync route and the UTMify   *)
(* notifier.  Handlers are async functions on the single-threaded Node     *)
(* event loop: one action of the model is one uninterrupted run of a       *)
(* handler between two awaits.                                             *)
(***************************************************************************)
EXTENDS Integers, Sequences, FiniteSets, Bags, TLC

(***************************************************************************)
(* JavaScript values.  A string is a sequence of one-character strings, an *)
(* object an ordered sequence of <<key, value>> pairs (JSON key order).    *)
(***************************************************************************)
Undef == [t |-> "undefined"]

Null == [t |-> "null"]

Str(cs) == [t |-> "string", s |-> cs]

Obj(fs) == [t |-> "object", f |-> fs]

\* JS truthiness of the values above: "" , null and undefined are falsy.
Truthy(v) ==
  CASE v.t = "string" -> v.s # <<>>
    [] v.t = "object" -> TRUE
    [] OTHER -> FALSE

\* v?.k : undefined for null/undefined/strings, else the field or undefined.
Get(v, k) ==
  IF v.t # "object" THEN Undef
  ELSE IF \E i \in 1..Len(v.f) : v.f[i][1] = k
       THEN v.f[CHOOSE i \in 1..Len(v.f) : v.f[i][1] = k][2]
       ELSE Undef

\* a || b
Or(a, b) == IF Truthy(a) THEN a ELSE b

\* a ?? b
Nullish(a, b) == IF a.t \in {"undefined", "null"} THEN b ELSE a

\* v?.k1 || v?.k2 || ... || dflt, keys tried in order
RECURSIVE FirstTruthy(_, _, _)
FirstTruthy(v, keys, dflt) ==
  IF keys = <<>> THEN dflt
  ELSE Or(Get(v, Head(keys)), FirstTruthy(v, Tail(keys), dflt))

(***************************************************************************)
(* JSON.stringify, as a sequence of text elements: the characters of       *)
(* string values one by one, keys and punctuation as whole elements (the   *)
(* keys used here hold no digit, so no part of the EMV pattern's literals  *)
(* can lie inside one).                                                    *)
(***************************************************************************)
RECURSIVE Stringify(_)
RECURSIVE StringifyFields(_)
StringifyFields(fs) ==
  IF fs = <<>> THEN <<>>
  ELSE <<"\"", Head(fs)[1], "\":">> \o Stringify(Head(fs)[2])
       \o (IF Len(fs) > 1 THEN <<",">> ELSE <<>>)
       \o StringifyFields(Tail(fs))

Stringify(v) ==
  CASE v.t = "string" -> <<"\"">> \o v.s \o <<"\"">>
    [] v.t = "object" -> <<"{">> \o StringifyFields(v.f) \o <<"}">>
    [] OTHER -> <<"null">>

HexDigits ==
  {"0", "1", "2", "3", "4", "5", "6", "7", "8", "9",
   "A", "B", "C", "D", "E", "F", "a", "b", "c", "d", "e", "f"}

EmvHead == <<"0", "0", "0", "2", "0", "1">>

EmvCrcTag == <<"6", "3", "0", "4">>

\* x has the literal lit at position i
HasAt(x, i, lit) ==
  /\ i >= 1
  /\ i + Len(lit) - 1 <= Len(x)
  /\ SubSeq(x, i, i + Len(lit) - 1) = lit

\* 6304 followed by four hex digits starts at position j of x
CrcAt(x, j) ==
  /\ HasAt(x, j, EmvCrcTag)
  /\ j + 7 <= Len(x)
  /\ \A k \in (j + 4)..(j + 7) : x[k] \in HexDigits

\* a match of /000201[\s\S]*?6304[0-9A-Fa-f]{4}/ starts at position i of x
EmvStartsAt(x, i) ==
  /\ HasAt(x, i, EmvHead)
  /\ \E j \in (i + 6)..Len(x) : CrcAt(x, j)

\* raw.match(/000201[\s\S]*?6304[0-9A-Fa-f]{4}/): the leftmost start, the
\* shortest body (lazy quantifier); Null when there is no match.
EmvMatch(x) ==
  LET starts == {a \in 1..Len(x) : EmvStartsAt(x, a)} IN
  IF starts = {} THEN Null
  ELSE LET i == CHOOSE a \in starts : \A b \in starts : a <= b
           crcs == {a \in (i + 6)..Len(x) : CrcAt(x, a)}
           j == CHOOSE a \in crcs : \A b \in crcs : a <= b
       IN  Str(SubSeq(x, i, j + 7))

\* qrCodeUrl.startsWith('000201')
StartsWithEmvHead(v) == v.t = "string" /\ HasAt(v.s, 1, EmvHead)

(***************************************************************************)
(* parseVeopagDepositResponse (src/server.js)                              *)
(***************************************************************************)
QrBlockKeys == <<"qrCodeResponse", "qr_code_response", "qr", "data">>

QrUrlKeys ==
  <<"qrCodeUrl", "qrcodeUrl", "qr_code_url", "qrCode", "qrcode", "qr_url",
    "imageUrl">>

CopyPasteKeys ==
  <<"pixCopyPaste", "copyPaste", "emv", "payload", "pixCode", "brCode">>

parseVeopagDepositResponse(data) ==
  LET qrBlock == FirstTruthy(data, QrBlockKeys, data)
      transactionId ==
        Or(Get(qrBlock, "transactionId"),
        Or(Get(qrBlock, "transaction_id"),
        Or(Get(qrBlock, "id"),
        Or(Get(data, "transactionId"),
        Or(Get(data, "id"), Null)))))
      qrCodeUrl0 == FirstTruthy(qrBlock, QrUrlKeys, Null)
      copyPaste0 ==
        FirstTruthy(qrBlock, CopyPasteKeys,
                    IF Get(qrBlock, "code").t = "string"
                    THEN Get(qrBlock, "code") ELSE Null)
      copyPaste1 ==
        IF ~Truthy(copyPaste0)
        THEN LET m == EmvMatch(Stringify(data))
             IN  IF m # Null THEN m ELSE copyPaste0
        ELSE copyPaste0
      reclassify == ~Truthy(copyPaste1) /\ StartsWithEmvHead(qrCodeUrl0)
  IN  [transactionId |-> transactionId,
       qrCodeUrl |-> IF reclassify THEN Null ELSE qrCodeUrl0,
       copyPaste |-> IF reclassify THEN qrCodeUrl0 ELSE copyPaste1,
       expiresAt |-> Nullish(Get(qrBlock, "expiresAt"),
                             Nullish(Get(qrBlock, "expires_at"), Null))]

\* parseVeopagDepositResponse of the earlier variant (src/unnamed/part_000)
parseVeopagDepositResponseV0(data) ==
  LET qrBlock == Or(Get(data, "qrCodeResponse"), Or(Get(data, "data"), data))
  IN  [transactionId |-> Or(Get(qrBlock, "transactionId"),
                            Get(data, "transactionId")),
       qrCodeUrl |-> Or(Get(qrBlock, "qrCodeUrl"), Null),
       copyPaste |-> Or(Get(qrBlock, "pixCopyPaste"), Null),
       expiresAt |-> Or(Get(qrBlock, "expiresAt"), Null)]

(***************************************************************************)
(* Numbers: a finite number is kept in thousandths ([t |-> "number",       *)
(* n |-> 25500] is 25.5); NaN and Infinity are values of their own.        *)
(***************************************************************************)
Num(n) == [t |-> "number", n |-> n]

NaN == [t |-> "NaN"]

Infinity == [t |-> "Infinity"]

Digits == <<"0", "1", "2", "3", "4", "5", "6", "7", "8", "9">>

DigitValue(c) == (CHOOSE k \in 1..Len(Digits) : Digits[k] = c) - 1

RECURSIVE DigitsValue(_)
DigitsValue(cs) ==
  IF cs = <<>> THEN 0
  ELSE 10 * DigitsValue(SubSeq(cs, 1, Len(cs) - 1)) + DigitValue(cs[Len(cs)])

\* Number(x) on the request values used here: undefined and objects give
\* NaN, null and "" give 0, "Infinity" gives Infinity, a string of digits
\* its value, any other string NaN.
ToNumber(x) ==
  CASE x.t = "number" -> x
    [] x.t = "null" -> Num(0)
    [] x.t = "string" ->
         IF x.s = <<>> THEN Num(0)
         ELSE IF x.s = <<"I", "n", "f", "i", "n", "i", "t", "y">> THEN Infinity
         ELSE IF \A k \in 1..Len(x.s) : \E d \in 1..Len(Digits) : Digits[d] = x.s[k]
              THEN Num(1000 * DigitsValue(x.s))
              ELSE NaN
    [] OTHER -> NaN

\* a validation that forgets the sign
AmountInvalidNoSign(amount) == amount.t # "number"

\* !Number.isFinite(amount) || amount <= 0
AmountInvalid(amount) == amount.t # "number" \/ amount.n <= 0

\* Math.round(amount * 100) of a finite amount (round half up)
AmountInCents(amount) == (amount.n * 100 + 500) \div 1000

(***************************************************************************)
(* Replies of the outside world to a fetch: the fetch rejects (network     *)
(* error), or resolves with r.ok and a body that is JSON or not.           *)
(***************************************************************************)
NotJson == [t |-> "notjson"]

Rejected == [fetch |-> "rejected"]

Reply(ok, body) == [fetch |-> "resolved", ok |-> ok, body |-> body]

\* a fetch that resolves with HTTP status 404: r.ok is false
NotFound == [fetch |-> "resolved", ok |-> FALSE, status |-> "404", body |-> NotJson]

Threw == [threw |-> TRUE]

Returned(v) == [threw |-> FALSE, value |-> v]

\* sample texts
TxId(n) == Str(<<"t", Digits[n + 1]>>)

Url == Str(<<"u", "r", "l">>)

Emv == Str(EmvHead \o EmvCrcTag \o <<"A", "1", "B", "2">>)

COMPLETED == Str(<<"C", "O", "M", "P", "L", "E", "T", "E", "D">>)

PENDING == Str(<<"P", "E", "N", "D", "I", "N", "G">>)

Token == Str(<<"j", "w", "t">>)

\* the provider's possible answers to the login request: network error,
\* non-success status, non-JSON body, JSON without token, JSON with token
AuthReplies ==
  {Rejected, Reply(FALSE, NotJson), Reply(TRUE, NotJson), Reply(TRUE, Obj(<<>>)),
   Reply(TRUE, Obj(<<<<"token", Token>>>>))}

\* a second transaction code
Emv2 == Str(EmvHead \o EmvCrcTag \o <<"c", "3", "D", "4">>)

\* one charge (id t1, URL, code) as the provider may shape it: flat, nested
\* under qrCodeResponse, nested under data
FlatCharge ==
  Obj(<<<<"transactionId", TxId(1)>>, <<"qrCodeUrl", Url>>, <<"pixCopyPaste", Emv>>>>)

QrCodeResponseCharge == Obj(<<<<"qrCodeResponse", FlatCharge>>>>)

DataCharge == Obj(<<<<"data", FlatCharge>>>>)

\* the same charge with no copy-paste field, its code (and then another)
\* inside a text field
FreeTextCharge ==
  Obj(<<<<"transactionId", TxId(1)>>, <<"qrCodeUrl", Url>>,
        <<"message", Str(<<"p", "i", "x", " ">> \o Emv.s \o <<" ">> \o Emv2.s)>>>>)

\* another charge (id t2) whose display URL field holds a transaction code
UrlIsCodeCharge == Obj(<<<<"transactionId", TxId(2)>>, <<"qrCodeUrl", Emv>>>>)

\* charge payloads: the five above, one with no artifact, one with no
\* transaction id
DepositBodies ==
  {FlatCharge, QrCodeResponseCharge, DataCharge, FreeTextCharge, UrlIsCodeCharge,
   Obj(<<<<"transactionId", TxId(1)>>>>),
   Obj(<<<<"qrCodeUrl", Url>>>>)}

DepositReplies ==
  {Rejected, Reply(FALSE, NotJson), Reply(TRUE, NotJson)}
  \cup {Reply(TRUE, b) : b \in DepositBodies}

StatusReplies ==
  {Rejected, NotFound, Reply(FALSE, NotJson), Reply(TRUE, NotJson),
   Reply(TRUE, Obj(<<>>)),
   Reply(TRUE, Obj(<<<<"status", PENDING>>>>)),
   Reply(TRUE, Obj(<<<<"status", COMPLETED>>>>))}

UtmifyReplies == {Rejected, Reply(FALSE, NotJson), Reply(TRUE, NotJson)}

\* request bodies of POST /donations: a valid one (25.50 with campaign tags),
\* then a missing, a non-numeric, an infinite, a zero and a negative amount
DonationBodies ==
  {[amount |-> Num(25500), utm |-> Obj(<<<<"source", Str(<<"a", "d">>)>>>>)],
   [amount |-> Undef, utm |-> Undef],
   [amount |-> Str(<<"a", "b", "c">>), utm |-> Undef],
   [amount |-> Str(<<"I", "n", "f", "i", "n", "i", "t", "y">>), utm |-> Undef],
   [amount |-> Num(0), utm |-> Undef],
   [amount |-> Num(-1000), utm |-> Undef]}

\* webhook events: transaction ids t1, t2 and one no charge ever gets
WebhookEvents ==
  [transaction_id : {TxId(1), TxId(2), TxId(3)}, status : {COMPLETED, PENDING}]

(***************************************************************************)
(* Veopag client (src/server.js)                                           *)
(***************************************************************************)
\* veopagToken, given the provider's reply to the login request
veopagToken(reply) ==
  IF reply.fetch = "rejected" THEN Threw
  ELSE IF ~reply.ok THEN Threw
  ELSE IF reply.body = NotJson THEN Threw
  ELSE IF ~Truthy(Get(reply.body, "token")) THEN Threw
  ELSE Returned(Get(reply.body, "token"))

\* a createDeposit that returns whatever the normalizer found
createDepositNoCheck(reply) ==
  IF reply.fetch = "rejected" THEN Threw
  ELSE IF ~reply.ok THEN Threw
  ELSE IF reply.body = NotJson THEN Threw
  ELSE LET p == parseVeopagDepositResponse(reply.body)
       IN  Returned([transactionId |-> p.transactionId,
                     qrCodeUrl |-> Nullish(p.qrCodeUrl, Null),
                     copyPaste |-> Nullish(p.copyPaste, Null),
                     expiresAt |-> p.expiresAt])

\* createDeposit after the token, given the provider's reply to the charge
createDeposit(reply) ==
  IF reply.fetch = "rejected" THEN Threw
  ELSE IF ~reply.ok THEN Threw
  ELSE IF reply.body = NotJson THEN Threw
  ELSE LET p == parseVeopagDepositResponse(reply.body)
       IN  IF ~Truthy(p.transactionId)
              \/ (~Truthy(p.qrCodeUrl) /\ ~Truthy(p.copyPaste))
           THEN Threw
           ELSE Returned([transactionId |-> p.transactionId,
                          qrCodeUrl |-> Nullish(p.qrCodeUrl, Null),
                          copyPaste |-> Nullish(p.copyPaste, Null),
                          expiresAt |-> p.expiresAt])

\* a status query that reports an answer it cannot read as no status
getDepositStatusLenient(reply) ==
  IF reply.fetch = "rejected" THEN Threw
  ELSE IF ~reply.ok \/ reply.body = NotJson THEN Returned(Undef)
  ELSE Returned(Get(reply.body, "status"))

\* createDeposit on each reply of the provider to the charge, computed once
DepositOutcome == [reply \in DepositReplies |-> createDeposit(reply)]

\* getDepositStatus after the token, given the provider's reply
getDepositStatus(reply) ==
  IF reply.fetch = "rejected" THEN Threw
  ELSE IF ~reply.ok THEN Threw
  ELSE IF reply.body = NotJson THEN Threw
  ELSE Returned(Get(reply.body, "status"))

\* sendUtmifyOrder after its fetch, given the attribution service's reply
sendUtmifyOrder(reply) ==
  IF reply.fetch = "rejected" THEN Threw
  ELSE IF ~reply.ok THEN Threw
  ELSE Returned(Undef)

(***************************************************************************)
(* Bounds                                                                  *)
(***************************************************************************)
\* requests received in a run
MaxReq == 3

(***************************************************************************)
(* State                                                                   *)
(***************************************************************************)
VARIABLES
  db,        \* the Map, as the sequence of its records in insertion order
  inflight,  \* bag of the handlers that await: their locals and position
  uuids,     \* number of crypto.randomUUID() calls so far
  now,       \* the last reading of the clock
  started,   \* number of requests received so far
  utmify,    \* the orders handed to fetch by sendUtmifyOrder, in order
  last       \* the response the last step sent (NoResponse: none), with the
             \* request it answers (req), the id its handler worked on and
             \* whether the handler made the transition to 'paid' (applied)

vars == <<db, inflight, uuids, now, started, utmify, last>>

NoResponse == [kind |-> "none"]

Init ==
  /\ db = <<>>
  /\ inflight = EmptyBag
  /\ uuids = 0
  /\ now = 0
  /\ started = 0
  /\ utmify = <<>>
  /\ last = NoResponse

\* an id generator that can return an id already in use
randomUUIDRepeats == IF db = <<>> THEN uuids + 1 ELSE db[1].id

\* crypto.randomUUID(): an id no earlier call returned
randomUUID == uuids + 1

\* new Date(): each reading of the clock is later than the one before
Clock == now + 1

\* toUtcString(date)
toUtcString(date) == [t |-> "utc", at |-> date]

\* a === b on strings, null and undefined (a parsed object is never
\* identical to another)
StrictEq(a, b) == a.t # "object" /\ a = b

DbHas(id) == \E k \in 1..Len(db) : db[k].id = id

DbIndex(id) == CHOOSE k \in 1..Len(db) : db[k].id = id

\* a lookup that answers with the first record when the key is absent
DbGetOrFirst(id) ==
  IF DbHas(id) THEN db[DbIndex(id)] ELSE IF Len(db) > 0 THEN db[1] ELSE Undef

\* db.get(id)
DbGet(id) == IF DbHas(id) THEN db[DbIndex(id)] ELSE Undef

\* a write that is lost
DbSetLost(id, rec) == db

\* db.set(id, rec): a new key goes last, an existing key keeps its place
DbSet(id, rec) ==
  IF DbHas(id) THEN [db EXCEPT ![DbIndex(id)] = rec] ELSE Append(db, rec)

\* a write that marks every record paid
DbMarkPaidAll(id) == [k \in 1..Len(db) |-> [db[k] EXCEPT !.status = "paid"]]

\* row.status = 'paid'; db.set(id, row) on the record object held in the Map
DbMarkPaid(id) == [db EXCEPT ![DbIndex(id)].status = "paid"]

\* a scan that falls back to the first record when nothing matches
FindByTxOrFirst(tx) ==
  IF \E k \in 1..Len(db) : StrictEq(db[k].veopagTxId, tx)
  THEN CHOOSE k \in 1..Len(db) :
         /\ StrictEq(db[k].veopagTxId, tx)
         /\ \A j \in 1..(k - 1) : ~StrictEq(db[j].veopagTxId, tx)
  ELSE IF Len(db) > 0 THEN 1 ELSE 0

\* the webhook's scan: index of the first record whose veopagTxId is the
\* event's transaction_id, 0 when there is none
FindByTx(tx) ==
  IF \E k \in 1..Len(db) : StrictEq(db[k].veopagTxId, tx)
  THEN CHOOSE k \in 1..Len(db) :
         /\ StrictEq(db[k].veopagTxId, tx)
         /\ \A j \in 1..(k - 1) : ~StrictEq(db[j].veopagTxId, tx)
  ELSE 0

\* the body sendUtmifyOrder posts (customer and constant fields left out)
UtmifyOrder(donationId, status, createdAtUtc, approvedDateUtc, amount, txId, utm) ==
  [orderId |-> <<"donation_", donationId>>,
   status |-> status,
   createdAt |-> createdAtUtc,
   approvedDate |-> approvedDateUtc,
   priceInCents |-> AmountInCents(amount),
   productId |-> txId,
   utm |-> utm]

\* a 'paid' order that stamps its creation time when it is sent
PaidOrderRestamped(row) ==
  UtmifyOrder(row.id, "paid", toUtcString(Clock), toUtcString(Clock), row.amount,
              row.veopagTxId, row.utm)

\* the 'paid' order of a stored record, as the webhook and the sync build it
PaidOrder(row) ==
  UtmifyOrder(row.id, "paid", row.createdAtUtc, toUtcString(Clock), row.amount,
              row.veopagTxId, row.utm)

\* a guard that forgets the event's status
WebhookAppliesAnyStatus(evStatus, rowStatus) == rowStatus # "paid"

\* a guard that forgets the record's status
WebhookAppliesAlways(evStatus, rowStatus) == StrictEq(evStatus, COMPLETED)

\* ev.status === 'COMPLETED' && row.status !== 'paid'
WebhookApplies(evStatus, rowStatus) ==
  StrictEq(evStatus, COMPLETED) /\ rowStatus # "paid"

\* a guard that forgets the provider's answer
SyncAppliesAnyStatus(st, rowStatus) == rowStatus # "paid"

\* a guard that forgets the record's status
SyncAppliesAlways(st, rowStatus) == StrictEq(st, COMPLETED)

\* st === 'COMPLETED' && row.status !== 'paid'
SyncApplies(st, rowStatus) ==
  StrictEq(st, COMPLETED) /\ rowStatus # "paid"

\* the status of a copy of the record taken when the request arrived
SyncRowStatusAtRead(c) == c.seen

\* row.status in the sync handler after its awaits: row is the record object
\* db.get returned, so this is the record's status as it is now
SyncRowStatus(c) == DbGet(c.id).status

\* a request is received
Receive ==
  /\ started < MaxReq
  /\ started' = started + 1

\* a handler starts to await, goes from one await to the next, or returns
Start(c) ==
  /\ inflight' = inflight (+) SetToBag({c})
  /\ last' = NoResponse

Await(c, d) ==
  /\ inflight' = (inflight (-) SetToBag({c})) (+) SetToBag({d})
  /\ last' = NoResponse

Return(c, resp) ==
  /\ inflight' = inflight (-) SetToBag({c})
  /\ last' = resp

Awaiting(kind, pc) == {c \in BagToSet(inflight) : c.kind = kind /\ c.pc = pc}

(***************************************************************************)
(* POST /donations (src/server.js)                                         *)
(***************************************************************************)
\* the request arrives: validation, randomUUID, createDeposit up to the
\* await of the login fetch
PostDonationsOn(body) ==
  /\ Receive
  /\ LET amount == ToNumber(body.amount) IN
     IF AmountInvalid(amount)
     THEN /\ last' = [kind |-> "create", req |-> body, code |-> 400]
          /\ UNCHANGED <<inflight, uuids>>
     ELSE /\ Start([kind |-> "create", pc |-> "auth", req |-> body, amount |-> amount,
                    utm |-> Or(body.utm, Null), donationId |-> randomUUID])
          /\ uuids' = uuids + 1
  /\ UNCHANGED <<db, now, utmify>>

PostDonations == \E body \in DonationBodies : PostDonationsOn(body)

\* the login settles: veopagToken throws (502) or the charge is posted
PostDonationsAuthOn(c, reply) ==
  /\ c \in Awaiting("create", "auth")
  /\ LET token == veopagToken(reply) IN
     IF token.threw
     THEN Return(c, [kind |-> "create", req |-> c.req, code |-> 502,
                     donationId |-> c.donationId])
     ELSE Await(c, [c EXCEPT !.pc = "deposit"] @@ [token |-> token.value])
  /\ UNCHANGED <<db, uuids, now, started, utmify>>

PostDonationsAuth ==
  \E c \in BagToSet(inflight) : \E reply \in AuthReplies : PostDonationsAuthOn(c, reply)

\* a creation that stores the record and yields before it sends the order
PostDonationsDepositYieldsOn(c, reply) ==
  /\ c \in Awaiting("create", "deposit")
  /\ reply \in DepositReplies
  /\ LET qr == DepositOutcome[reply]
         createdAtUtc == toUtcString(Clock) IN
     IF qr.threw
     THEN /\ Return(c, [kind |-> "create", req |-> c.req, code |-> 502,
                     donationId |-> c.donationId])
          /\ UNCHANGED <<db, now, utmify>>
     ELSE /\ now' = Clock
          /\ db' = DbSet(c.donationId,
               [id |-> c.donationId, amount |-> c.amount, status |-> "pending",
                veopagTxId |-> qr.value.transactionId,
                qrCodeUrl |-> qr.value.qrCodeUrl,
                copyPaste |-> qr.value.copyPaste,
                utm |-> c.utm, createdAtUtc |-> createdAtUtc])
          /\ utmify' = utmify
          /\ Await(c, [kind |-> "create", pc |-> "utmify", req |-> c.req,
                       amount |-> c.amount, utm |-> c.utm,
                       donationId |-> c.donationId, qr |-> qr.value])
  /\ UNCHANGED <<uuids, started>>

\* the charge settles: createDeposit throws (502), or the record is stored
\* and sendUtmifyOrder runs up to the await of its fetch
PostDonationsDepositOn(c, reply) ==
  /\ c \in Awaiting("create", "deposit")
  /\ reply \in DepositReplies
  /\ LET qr == DepositOutcome[reply]
         createdAtUtc == toUtcString(Clock) IN
     IF qr.threw
     THEN /\ Return(c, [kind |-> "create", req |-> c.req, code |-> 502,
                     donationId |-> c.donationId])
          /\ UNCHANGED <<db, now, utmify>>
     ELSE /\ now' = Clock
          /\ db' = DbSet(c.donationId,
               [id |-> c.donationId, amount |-> c.amount, status |-> "pending",
                veopagTxId |-> qr.value.transactionId,
                qrCodeUrl |-> qr.value.qrCodeUrl,
                copyPaste |-> qr.value.copyPaste,
                utm |-> c.utm, createdAtUtc |-> createdAtUtc])
          /\ utmify' = Append(utmify,
               UtmifyOrder(c.donationId, "waiting_payment", createdAtUtc, Null,
                           c.amount, qr.value.transactionId, c.utm))
          /\ Await(c, [kind |-> "create", pc |-> "utmify", req |-> c.req,
                       amount |-> c.amount, utm |-> c.utm,
                       donationId |-> c.donationId, qr |-> qr.value])
  /\ UNCHANGED <<uuids, started>>

PostDonationsDeposit ==
  \E c \in BagToSet(inflight) : \E reply \in DepositReplies :
    PostDonationsDepositOn(c, reply)

\* sendUtmifyOrder settles; its error is caught and logged: 201
PostDonationsDoneOn(c, reply) ==
  /\ c \in Awaiting("create", "utmify")
  /\ Return(c, [kind |-> "create", req |-> c.req, code |-> 201, donationId |-> c.donationId,
                transactionId |-> c.qr.transactionId,
                qrCodeUrl |-> c.qr.qrCodeUrl, copyPaste |-> c.qr.copyPaste,
                expiresAt |-> c.qr.expiresAt])
  /\ UNCHANGED <<db, uuids, now, started, utmify>>

PostDonationsDone ==
  \E c \in BagToSet(inflight) : \E reply \in UtmifyReplies :
    PostDonationsDoneOn(c, reply)

(***************************************************************************)
(* GET /donations/:id (src/server.js)                                      *)
(***************************************************************************)
\* ids a caller may ask for: those randomUUID has returned, and 0 for any
\* other string
KnownIds == 0..uuids

GetDonationOn(id) ==
  /\ Receive
  /\ LET row == DbGet(id) IN
     last' = IF row = Undef
             THEN [kind |-> "get", req |-> id, code |-> 404]
             ELSE [kind |-> "get", req |-> id, code |-> 200, donationId |-> id,
                   status |-> row.status, amount |-> row.amount,
                   qrCodeUrl |-> row.qrCodeUrl, copyPaste |-> row.copyPaste]
  /\ UNCHANGED <<db, inflight, uuids, now, utmify>>

GetDonation == \E id \in KnownIds : GetDonationOn(id)

(***************************************************************************)
(* POST /webhooks/veopag (src/server.js)                                   *)
(***************************************************************************)
\* the event arrives: the scan, 404, the transition with sendUtmifyOrder up
\* to the await of its fetch, or 200 at once
PostWebhookOn(ev) ==
  /\ Receive
  /\ LET k == FindByTx(ev.transaction_id) IN
     IF k = 0
     THEN /\ last' = [kind |-> "webhook", req |-> ev, code |-> 404, applied |-> FALSE]
          /\ UNCHANGED <<db, inflight, now, utmify>>
     ELSE IF WebhookApplies(ev.status, db[k].status)
     THEN /\ db' = DbMarkPaid(db[k].id)
          /\ now' = Clock
          /\ utmify' = Append(utmify, PaidOrder(db[k]))
          /\ Start([kind |-> "webhook", pc |-> "utmify", req |-> ev,
                    donationId |-> db[k].id])
     ELSE /\ last' = [kind |-> "webhook", req |-> ev, code |-> 200, applied |-> FALSE]
          /\ UNCHANGED <<db, inflight, now, utmify>>
  /\ UNCHANGED uuids

PostWebhook == \E ev \in WebhookEvents : PostWebhookOn(ev)

\* sendUtmifyOrder settles; its error is caught and logged: 200
PostWebhookDoneOn(c, reply) ==
  /\ c \in Awaiting("webhook", "utmify")
  /\ Return(c, [kind |-> "webhook", req |-> c.req, code |-> 200, applied |-> TRUE])
  /\ UNCHANGED <<db, uuids, now, started, utmify>>

PostWebhookDone ==
  \E c \in BagToSet(inflight) : \E reply \in UtmifyReplies :
    PostWebhookDoneOn(c, reply)

(***************************************************************************)
(* POST /donations/:id/sync (src/server.js)                                *)
(***************************************************************************)
\* the request arrives: db.get, 404, or getDepositStatus up to the await of
\* the login fetch; row is the record object itself, named here by its id
PostSyncOn(id) ==
  /\ Receive
  /\ LET row == DbGet(id) IN
     IF row = Undef \/ ~Truthy(row.veopagTxId)
     THEN /\ last' = [kind |-> "sync", req |-> id, code |-> 404, applied |-> FALSE]
          /\ UNCHANGED inflight
     ELSE Start([kind |-> "sync", pc |-> "auth", id |-> id, seen |-> row.status,
                 applied |-> FALSE])
  /\ UNCHANGED <<db, uuids, now, utmify>>

PostSync == \E id \in KnownIds : PostSyncOn(id)

\* the login settles: veopagToken throws (502) or the status is asked for
PostSyncAuthOn(c, reply) ==
  /\ c \in Awaiting("sync", "auth")
  /\ LET token == veopagToken(reply) IN
     IF token.threw
     THEN Return(c, [kind |-> "sync", req |-> c.id, code |-> 502, applied |-> FALSE])
     ELSE Await(c, [c EXCEPT !.pc = "status"] @@ [token |-> token.value])
  /\ UNCHANGED <<db, uuids, now, started, utmify>>

PostSyncAuth ==
  \E c \in BagToSet(inflight) : \E reply \in AuthReplies : PostSyncAuthOn(c, reply)

\* the status query settles: getDepositStatus throws (502), the transition
\* with sendUtmifyOrder up to the await of its fetch, or 200 at once
PostSyncStatusOn(c, reply) ==
  /\ c \in Awaiting("sync", "status")
  /\ LET st == getDepositStatus(reply)
         rowStatus == SyncRowStatus(c) IN
     IF st.threw
     THEN /\ Return(c, [kind |-> "sync", req |-> c.id, code |-> 502, applied |-> FALSE])
          /\ UNCHANGED <<db, now, utmify>>
     ELSE IF SyncApplies(st.value, rowStatus)
     THEN /\ db' = DbMarkPaid(c.id)
          /\ now' = Clock
          /\ utmify' = Append(utmify, PaidOrder(DbGet(c.id)))
          /\ Await(c, [kind |-> "sync", pc |-> "utmify", id |-> c.id,
                       applied |-> TRUE])
     ELSE /\ Return(c, [kind |-> "sync", req |-> c.id, code |-> 200,
                        applied |-> FALSE, donationId |-> c.id,
                        status |-> rowStatus])
          /\ UNCHANGED <<db, now, utmify>>
  /\ UNCHANGED <<uuids, started>>

PostSyncStatus ==
  \E c \in BagToSet(inflight) : \E reply \in StatusReplies :
    PostSyncStatusOn(c, reply)

\* sendUtmifyOrder settles; its error is caught and logged: 200 with the
\* record's status as it is now
PostSyncDoneOn(c, reply) ==
  /\ c \in Awaiting("sync", "utmify")
  /\ Return(c, [kind |-> "sync", req |-> c.id, code |-> 200, applied |-> TRUE,
                donationId |-> c.id, status |-> DbGet(c.id).status])
  /\ UNCHANGED <<db, uuids, now, started, utmify>>

PostSyncDone ==
  \E c \in BagToSet(inflight) : \E reply \in UtmifyReplies :
    PostSyncDoneOn(c, reply)

(***************************************************************************)
(* The earlier variant of the service (src/unnamed/part_000): no sync      *)
(* route, no check of the normalized charge, notifier errors not caught.   *)
(***************************************************************************)
\* veopagToken of the variant: no check of the token field
veopagTokenV0(reply) ==
  IF reply.fetch = "rejected" THEN Threw
  ELSE IF ~reply.ok THEN Threw
  ELSE IF reply.body \in {NotJson, Null} THEN Threw
  ELSE Returned(Get(reply.body, "token"))

\* createDeposit of the variant: whatever the normalizer gives is returned
createDepositV0(reply) ==
  IF reply.fetch = "rejected" THEN Threw
  ELSE IF ~reply.ok THEN Threw
  ELSE IF reply.body = NotJson THEN Threw
  ELSE Returned(parseVeopagDepositResponseV0(reply.body))

\* createDeposit of the variant on each reply to the charge, computed once
DepositOutcomeV0 == [reply \in DepositReplies |-> createDepositV0(reply)]

PostDonationsAuthV0On(c, reply) ==
  /\ c \in Awaiting("create", "auth")
  /\ LET token == veopagTokenV0(reply) IN
     IF token.threw
     THEN Return(c, [kind |-> "create", req |-> c.req, code |-> 502,
                     donationId |-> c.donationId])
     ELSE Await(c, [c EXCEPT !.pc = "deposit"] @@ [token |-> token.value])
  /\ UNCHANGED <<db, uuids, now, started, utmify>>

PostDonationsAuthV0 ==
  \E c \in BagToSet(inflight) : \E reply \in AuthReplies :
    PostDonationsAuthV0On(c, reply)

PostDonationsDepositV0On(c, reply) ==
  /\ c \in Awaiting("create", "deposit")
  /\ reply \in DepositReplies
  /\ LET qr == DepositOutcomeV0[reply]
         createdAtUtc == toUtcString(Clock) IN
     IF qr.threw
     THEN /\ Return(c, [kind |-> "create", req |-> c.req, code |-> 502,
                     donationId |-> c.donationId])
          /\ UNCHANGED <<db, now, utmify>>
     ELSE /\ now' = Clock
          /\ db' = DbSet(c.donationId,
               [id |-> c.donationId, amount |-> c.amount, status |-> "pending",
                veopagTxId |-> qr.value.transactionId,
                qrCodeUrl |-> qr.value.qrCodeUrl,
                copyPaste |-> qr.value.copyPaste,
                utm |-> c.utm, createdAtUtc |-> createdAtUtc])
          /\ utmify' = Append(utmify,
               UtmifyOrder(c.donationId, "waiting_payment", createdAtUtc, Null,
                           c.amount, qr.value.transactionId, c.utm))
          /\ Await(c, [kind |-> "create", pc |-> "utmify", req |-> c.req,
                       amount |-> c.amount, utm |-> c.utm,
                       donationId |-> c.donationId, qr |-> qr.value])
  /\ UNCHANGED <<uuids, started>>

PostDonationsDepositV0 ==
  \E c \in BagToSet(inflight) : \E reply \in DepositReplies :
    PostDonationsDepositV0On(c, reply)

\* sendUtmifyOrder settles; its error reaches the handler's catch: 502
PostDonationsDoneV0On(c, reply) ==
  /\ c \in Awaiting("create", "utmify")
  /\ IF sendUtmifyOrder(reply).threw
     THEN Return(c, [kind |-> "create", req |-> c.req, code |-> 502,
                     donationId |-> c.donationId])
     ELSE Return(c, [kind |-> "create", req |-> c.req, code |-> 201, donationId |-> c.donationId,
                     qrCodeUrl |-> c.qr.qrCodeUrl, copyPaste |-> c.qr.copyPaste,
                     expiresAt |-> c.qr.expiresAt])
  /\ UNCHANGED <<db, uuids, now, started, utmify>>

PostDonationsDoneV0 ==
  \E c \in BagToSet(inflight) : \E reply \in UtmifyReplies :
    PostDonationsDoneV0On(c, reply)

\* sendUtmifyOrder settles; its error reaches the handler's catch: 500
PostWebhookDoneV0On(c, reply) ==
  /\ c \in Awaiting("webhook", "utmify")
  /\ IF sendUtmifyOrder(reply).threw
     THEN Return(c, [kind |-> "webhook", req |-> c.req, code |-> 500, applied |-> TRUE])
     ELSE Return(c, [kind |-> "webhook", req |-> c.req, code |-> 200, applied |-> TRUE])
  /\ UNCHANGED <<db, uuids, now, started, utmify>>

PostWebhookDoneV0 ==
  \E c \in BagToSet(inflight) : \E reply \in UtmifyReplies :
    PostWebhookDoneV0On(c, reply)

Next ==
  \/ PostDonations
  \/ PostDonationsAuth
  \/ PostDonationsDeposit
  \/ PostDonationsDone
  \/ GetDonation
  \/ PostWebhook
  \/ PostWebhookDone
  \/ PostSync
  \/ PostSyncAuth
  \/ PostSyncStatus
  \/ PostSyncDone

Spec == Init /\ [][Next]_vars

\* the routes of the earlier variant; its validation, lookup and webhook
\* scan are the same code
NextV0 ==
  \/ PostDonations
  \/ PostDonationsAuthV0
  \/ PostDonationsDepositV0
  \/ PostDonationsDoneV0
  \/ GetDonation
  \/ PostWebhook
  \/ PostWebhookDoneV0

SpecV0 == Init /\ [][NextV0]_vars

(***************************************************************************)
(* Properties                                                              *)
(***************************************************************************)
Rows == 1..Len(db)

\* the 'paid' orders sent for donation id
PaidOrders(id) ==
  {i \in 1..Len(utmify) :
     utmify[i].status = "paid" /\ utmify[i].orderId = <<"donation_", id>>}

\* the request carries a transaction id that some record has, none that no
\* record has
TxRecognized(tx) == \E k \in Rows : db[k].veopagTxId = tx

\* every record with that transaction id is already paid
TxAlreadyPaid(tx) ==
  TxRecognized(tx) /\ \A k \in Rows : db[k].veopagTxId = tx => db[k].status = "paid"

StatusReplyCompleted(reply) ==
  reply.fetch = "resolved" /\ reply.ok /\ reply.body # NotJson
  /\ Get(reply.body, "status") = COMPLETED

\* C1: a record keeps its place and id, its status is pending or paid, and
\* once paid it is paid after every step; no step writes pending over paid.
C1_StatusMonotonic ==
  [][\A k \in Rows :
       /\ k <= Len(db')
       /\ db'[k].id = db[k].id
       /\ db'[k].status \in {"pending", "paid"}
       /\ (db[k].status = "paid" => db'[k].status = "paid")]_vars

\* C1 witness: a paid record, and a later sync of it answered without change
C1_Witness ==
  /\ last.kind = "sync" /\ last.code = 200 /\ ~last.applied
  /\ DbHas(last.req) /\ DbGet(last.req).status = "paid"
  /\ Len(db) = 1

\* a step that applies a completion to a record that is already paid: a
\* COMPLETED webhook for its transaction id, or a sync of it whose status
\* query answers COMPLETED
LaterCompletion ==
  \/ \E ev \in WebhookEvents :
       /\ ev.status = COMPLETED
       /\ TxAlreadyPaid(ev.transaction_id)
       /\ PostWebhookOn(ev)
  \/ \E c \in BagToSet(inflight) : \E reply \in StatusReplies :
       /\ StatusReplyCompleted(reply)
       /\ PostSyncStatusOn(c, reply)
       /\ DbGet(c.id).status = "paid"

\* a step that applies a completion to a pending record
FirstCompletion(k) ==
  /\ db[k].status = "pending"
  /\ \/ \E ev \in WebhookEvents :
          /\ ev.status = COMPLETED
          /\ db[k].veopagTxId = ev.transaction_id
          /\ \A j \in 1..(k - 1) : db[j].veopagTxId # ev.transaction_id
          /\ PostWebhookOn(ev)
     \/ \E c \in BagToSet(inflight) : \E reply \in StatusReplies :
          /\ StatusReplyCompleted(reply)
          /\ PostSyncStatusOn(c, reply)
          /\ c.id = db[k].id

\* C2: the first completion applied to a donation makes it paid and sends
\* one paid order; every completion applied after that changes no record and
\* sends nothing.
C2_CompletionIdempotent ==
  [][/\ \A k \in Rows :
          FirstCompletion(k) =>
            /\ db' = [db EXCEPT ![k].status = "paid"]
            /\ Len(utmify') = Len(utmify) + 1
            /\ PaidOrders(db[k].id)' = PaidOrders(db[k].id) \cup {Len(utmify')}
     /\ LaterCompletion => db' = db /\ utmify' = utmify]_vars

\* C2 witness: a second completion (a COMPLETED webhook) answered after the
\* donation was paid, with one paid order sent in all
C2_Witness ==
  /\ last.kind = "webhook" /\ last.code = 200 /\ ~last.applied
  /\ last.req.status = COMPLETED
  /\ TxAlreadyPaid(last.req.transaction_id)
  /\ \E k \in Rows : Cardinality(PaidOrders(db[k].id)) = 1

\* handlers that have made the transition for donation id and await the
\* notifier
Appliers(id) ==
  {c \in BagToSet(inflight) :
     /\ c.kind \in {"webhook", "sync"}
     /\ c.pc = "utmify"
     /\ (IF c.kind = "sync" THEN c.id ELSE c.donationId) = id}

\* C3: under every interleaving of webhooks and syncs, a donation has one
\* paid order if it is paid and none if it is not, and at most one handler
\* is in the branch that made the transition.
C3_OneWinner ==
  \A k \in Rows :
    /\ Cardinality(PaidOrders(db[k].id)) = (IF db[k].status = "paid" THEN 1 ELSE 0)
    /\ BagCardinality([c \in Appliers(db[k].id) |-> CopiesIn(c, inflight)]) <= 1

\* C3 witness: a sync read the record while it was pending and still awaits
\* the provider; meanwhile a webhook has made the transition and awaits the
\* notifier
C3_Witness ==
  \E c \in BagToSet(inflight) : \E w \in BagToSet(inflight) :
    /\ c.kind = "sync" /\ c.pc = "status" /\ c.seen = "pending"
    /\ w.kind = "webhook" /\ w.donationId = c.id
    /\ DbGet(c.id).status = "paid"

\* C4: a webhook for a transaction id whose donation is already paid is
\* answered 200 {received: true} at once; it never answers 500.
C4_DuplicateWebhookOk ==
  [][\A ev \in WebhookEvents :
       (TxAlreadyPaid(ev.transaction_id) /\ PostWebhookOn(ev)) =>
         /\ last'.kind = "webhook"
         /\ last'.code = 200
         /\ inflight' = inflight]_vars

\* C4 witness: a PENDING or COMPLETED event for a paid donation answered 200
C4_Witness ==
  /\ last.kind = "webhook" /\ last.code = 200 /\ ~last.applied
  /\ TxAlreadyPaid(last.req.transaction_id)
  /\ inflight = EmptyBag

\* C5: a webhook whose transaction id no record has is answered 404, and
\* no record, no order and no handler changes.
C5_UnknownWebhook404 ==
  [][\A ev \in WebhookEvents :
       (~TxRecognized(ev.transaction_id) /\ PostWebhookOn(ev)) =>
         /\ last'.kind = "webhook"
         /\ last'.code = 404
         /\ db' = db
         /\ utmify' = utmify
         /\ inflight' = inflight]_vars

\* C5 witness: a 404 for a COMPLETED event while a pending record is stored
C5_Witness ==
  /\ last.kind = "webhook" /\ last.code = 404
  /\ last.req.status = COMPLETED
  /\ Len(db) >= 1
  /\ \A k \in Rows : db[k].status = "pending"

\* the login did not answer success with a JSON body that holds a token
AuthenticationFails(reply) ==
  \/ reply.fetch = "rejected"
  \/ ~reply.ok
  \/ reply.body = NotJson
  \/ ~Truthy(Get(reply.body, "token"))

\* the charge request did not answer success with a JSON body
ChargeFails(reply) ==
  \/ reply.fetch = "rejected"
  \/ ~reply.ok
  \/ reply.body = NotJson

\* the normalized charge response holds a transaction id and an artifact
ChargeComplete(reply) ==
  LET p == parseVeopagDepositResponse(reply.body) IN
  Truthy(p.transactionId) /\ (Truthy(p.qrCodeUrl) \/ Truthy(p.copyPaste))

\* the attribution service threw or answered a non-success status
NotifierFails(reply) == reply.fetch = "rejected" \/ ~reply.ok

\* the steps of POST /donations in either variant of the server
CreateAuthStep(c, reply) ==
  PostDonationsAuthOn(c, reply) \/ PostDonationsAuthV0On(c, reply)

CreateChargeStep(c, reply) ==
  PostDonationsDepositOn(c, reply) \/ PostDonationsDepositV0On(c, reply)

CreateDoneStep(c, reply) ==
  PostDonationsDoneOn(c, reply) \/ PostDonationsDoneV0On(c, reply)

\* the response to a creation, and whether the creation's record is stored
Created(c) == last'.kind = "create" /\ last'.code = 201 /\ DbHas(c.donationId)'

CreateRefused(c) == last'.kind = "create" /\ last'.code = 502

\* C6: a creation with a valid amount is refused when the gateway call
\* fails or its normalized response lacks the transaction id or every
\* artifact; otherwise it stores a pending record and answers 201, whatever
\* the notifier does.
C6_CreationIffGateway ==
  [][\A c \in BagToSet(inflight) :
       /\ \A reply \in AuthReplies :
            CreateAuthStep(c, reply) =>
              IF AuthenticationFails(reply)
              THEN CreateRefused(c) /\ ~DbHas(c.donationId)'
              ELSE last' = NoResponse
       /\ \A reply \in DepositReplies :
            CreateChargeStep(c, reply) =>
              IF ChargeFails(reply) \/ ~ChargeComplete(reply)
              THEN CreateRefused(c) /\ ~DbHas(c.donationId)'
              ELSE /\ last' = NoResponse
                   /\ DbHas(c.donationId)'
                   /\ DbGet(c.donationId)'.status = "pending"
       /\ \A reply \in UtmifyReplies :
            CreateDoneStep(c, reply) => Created(c)]_vars

\* the charge replies that fail, or lack the transaction id or every artifact
FailingDepositReplies ==
  {reply \in DepositReplies : ChargeFails(reply) \/ ~ChargeComplete(reply)}

\* a step in which the gateway client fails a creation
GatewayFailure(c) ==
  \/ \E reply \in AuthReplies :
       AuthenticationFails(reply) /\ PostDonationsAuthOn(c, reply)
  \/ \E reply \in FailingDepositReplies : PostDonationsDepositOn(c, reply)

\* C7: when the gateway client fails a creation the caller gets 502, the
\* store and the notifications are as they were, and the creation's id is
\* not in the store; the request's arrival changed neither.
C7_GatewayFailureNoRecord ==
  [][/\ \A c \in BagToSet(inflight) :
          GatewayFailure(c) =>
            /\ last' = [kind |-> "create", req |-> c.req, code |-> 502,
                        donationId |-> c.donationId]
            /\ db' = db
            /\ utmify' = utmify
            /\ ~DbHas(c.donationId)
     /\ \A body \in DonationBodies :
          PostDonationsOn(body) => db' = db /\ utmify' = utmify]_vars

\* C7 witness: a creation refused with 502 while an earlier donation is
\* stored, the refused one absent, one notification sent in all
C7_Witness ==
  /\ last.kind = "create" /\ last.code = 502
  /\ ~DbHas(last.donationId)
  /\ Len(db) = 1 /\ Len(utmify) = 1

\* C8: every stored donation has a non-empty provider transaction id and a
\* display URL or a copy-paste code.
C8_StoredHasTxAndArtifact ==
  \A k \in Rows :
    /\ Truthy(db[k].veopagTxId)
    /\ Truthy(db[k].qrCodeUrl) \/ Truthy(db[k].copyPaste)

\* C9: no two stored donations share a provider transaction id.
C9_TxIdUnique ==
  \A j \in Rows : \A k \in Rows :
    db[j].veopagTxId = db[k].veopagTxId => j = k

\* C10: when the notifier fails, the creation still answers 201 with its
\* record stored, the completing webhook or sync still answers 200 with the
\* record paid, and no record changes.
C10_NotifierFailureContained ==
  [][\A c \in BagToSet(inflight) : \A reply \in UtmifyReplies :
       NotifierFails(reply) =>
         /\ CreateDoneStep(c, reply) => Created(c) /\ db' = db
         /\ (PostWebhookDoneOn(c, reply) \/ PostWebhookDoneV0On(c, reply)) =>
              /\ last'.kind = "webhook" /\ last'.code = 200
              /\ DbGet(c.donationId)'.status = "paid"
              /\ db' = db
         /\ PostSyncDoneOn(c, reply) =>
              /\ last'.kind = "sync" /\ last'.code = 200
              /\ DbGet(c.id)'.status = "paid"
              /\ db' = db]_vars

\* the sync handler of donation id is still awaiting the provider's status
SyncStillQuerying(id) ==
  \E d \in BagToSet(inflight) : d.kind = "sync" /\ d.pc = "status" /\ d.id = id

\* C11: a 404 from a status endpoint means 'try the next candidate': the
\* sync goes on querying and answers nothing yet; any other non-success
\* status ends the query at once with 502.
C11_StatusCandidates ==
  [][\A c \in BagToSet(inflight) : \A reply \in StatusReplies :
       (PostSyncStatusOn(c, reply) /\ reply.fetch = "resolved" /\ ~reply.ok) =>
         IF reply = NotFound
         THEN last' = NoResponse /\ SyncStillQuerying(c.id)'
         ELSE last'.kind = "sync" /\ last'.code = 502]_vars

\* the status request did not answer success with a JSON body
StatusQueryFails(reply) ==
  \/ reply.fetch = "rejected"
  \/ ~reply.ok
  \/ reply.body = NotJson

\* a step in which the status query of a sync fails
SyncQueryFailure(c) ==
  \/ \E reply \in AuthReplies :
       AuthenticationFails(reply) /\ PostSyncAuthOn(c, reply)
  \/ \E reply \in StatusReplies :
       StatusQueryFails(reply) /\ PostSyncStatusOn(c, reply)

\* C12: when the status query of a sync fails (login, non-success status or
\* unparseable body) the sync answers 502, no record changes and no order
\* is sent.
C12_SyncQueryFailure502 ==
  [][\A c \in BagToSet(inflight) :
       SyncQueryFailure(c) =>
         /\ last'.kind = "sync" /\ last'.req = c.id /\ last'.code = 502
         /\ db' = db
         /\ utmify' = utmify]_vars

\* C12 witness: a sync answered 502 for a stored donation that is still
\* pending, with no paid order sent
C12_Witness ==
  /\ last.kind = "sync" /\ last.code = 502
  /\ DbHas(last.req) /\ DbGet(last.req).status = "pending"
  /\ PaidOrders(last.req) = {}

\* the id is not in the store, or its record has no transaction id
NoSyncTarget(id) ==
  \A k \in Rows : db[k].id = id => ~Truthy(db[k].veopagTxId)

\* C13: a sync for an id that is not in the store, or whose record has no
\* transaction id, answers 404 at once: no handler is left awaiting the
\* provider, no record changes and no order is sent.
C13_SyncUnknown404 ==
  [][\A id \in KnownIds :
       (NoSyncTarget(id) /\ PostSyncOn(id)) =>
         /\ last'.kind = "sync" /\ last'.req = id /\ last'.code = 404
         /\ inflight' = inflight
         /\ db' = db
         /\ utmify' = utmify]_vars

\* C13 witness: a sync answered 404 for an id that is not in the store
\* while another donation is stored
C13_Witness ==
  /\ last.kind = "sync" /\ last.code = 404
  /\ ~DbHas(last.req)
  /\ Len(db) >= 1

InfinityText == Str(<<"I", "n", "f", "i", "n", "i", "t", "y">>)

\* the amount of a request body is missing, non-numeric, infinite, zero or
\* negative
NotFinitePositive(a) ==
  \/ a = Undef
  \/ a.t = "string" /\ a # InfinityText
       /\ \E k \in 1..Len(a.s) : \A d \in 1..Len(Digits) : Digits[d] # a.s[k]
  \/ a = InfinityText \/ a = Infinity
  \/ a.t = "number" /\ a.n <= 0

\* C14: a creation whose amount is missing, non-numeric, infinite, zero or
\* negative answers 400 at once: no gateway call is started, no id is
\* drawn, no record is inserted and no order is sent.
C14_InvalidAmount400 ==
  [][\A body \in DonationBodies :
       (NotFinitePositive(body.amount) /\ PostDonationsOn(body)) =>
         /\ last' = [kind |-> "create", req |-> body, code |-> 400]
         /\ inflight' = inflight
         /\ uuids' = uuids
         /\ db' = db
         /\ utmify' = utmify]_vars

\* C14 witness: a negative amount refused with 400 while a donation is
\* stored and nothing is in flight
C14_Witness ==
  /\ last.kind = "create" /\ last.code = 400
  /\ last.req.amount = Num(-1000)
  /\ Len(db) = 1 /\ Len(utmify) = 1
  /\ inflight = EmptyBag

\* order o carries the snapshot of record r: its order id, transaction id,
\* creation timestamp and its amount in cents (thousandths over ten)
CarriesSnapshot(o, r) ==
  /\ o.orderId = <<"donation_", r.id>>
  /\ o.productId = r.veopagTxId
  /\ o.createdAt = r.createdAtUtc
  /\ o.priceInCents * 10 = r.amount.n
  /\ r.amount = Num(25500) => o.priceInCents = 2550

\* C15: after every step each order sent carries the snapshot of one stored
\* donation; a waiting order has a null approval date; a paid order has an
\* approval timestamp later than the creation timestamp, and the step that
\* sends it is the one that takes that donation from pending to paid, at the
\* clock reading of that step.
C15_NotificationSnapshot ==
  [][/\ \A i \in 1..Len(utmify') :
          /\ \E k \in 1..Len(db') : CarriesSnapshot(utmify'[i], db'[k])
          /\ utmify'[i].status \in {"waiting_payment", "paid"}
          /\ utmify'[i].status = "waiting_payment" => utmify'[i].approvedDate = Null
          /\ utmify'[i].status = "paid" =>
               /\ utmify'[i].approvedDate.t = "utc"
               /\ utmify'[i].approvedDate.at > utmify'[i].createdAt.at
     /\ \A i \in 1..Len(utmify') :
          (i > Len(utmify) /\ utmify'[i].status = "paid") =>
            /\ utmify'[i].approvedDate = [t |-> "utc", at |-> now']
            /\ now' > now
            /\ \E k \in Rows :
                 /\ CarriesSnapshot(utmify'[i], db[k])
                 /\ db[k].status = "pending"
                 /\ db'[k].status = "paid"
     /\ \A i \in 1..Len(utmify) : i <= Len(utmify') /\ utmify'[i] = utmify[i]]_vars

\* C15 witness: the waiting order and the paid order of one donation of
\* 25.50, both with 2550 cents and the same creation timestamp
C15_Witness ==
  \E i \in 1..Len(utmify) : \E j \in 1..Len(utmify) :
    /\ utmify[i].status = "waiting_payment" /\ utmify[j].status = "paid"
    /\ utmify[i].orderId = utmify[j].orderId
    /\ utmify[i].createdAt = utmify[j].createdAt
    /\ utmify[j].priceInCents = 2550
    /\ last.kind = "sync" /\ last.code = 200 /\ last.applied

\* the shapes of the charge (t1, Url, Emv)
ChargeShapes == {FlatCharge, QrCodeResponseCharge, DataCharge, FreeTextCharge}

\* C16: whichever shape the provider gives the charge (flat, nested under
\* qrCodeResponse, nested under data, or with its code only inside a text),
\* the creation stores the same transaction id, display URL and copy-paste
\* code, the code being the first match of the pattern in the text.
C16_NormalizerShapes ==
  [][\A c \in BagToSet(inflight) : \A body \in ChargeShapes :
       CreateChargeStep(c, Reply(TRUE, body)) =>
         /\ DbHas(c.donationId)'
         /\ DbGet(c.donationId)'.veopagTxId = TxId(1)
         /\ DbGet(c.donationId)'.qrCodeUrl = Url
         /\ DbGet(c.donationId)'.copyPaste = Emv]_vars

\* the whole of v is one transaction code
IsTransactionCode(v) == v.t = "string" /\ EmvMatch(v.s) = v

\* C17: when the display URL of the charge is itself a transaction code,
\* the creation stores it as the copy-paste code and stores no display URL.
C17_UrlReclassified ==
  [][\A c \in BagToSet(inflight) : \A body \in DepositBodies :
       (IsTransactionCode(Get(body, "qrCodeUrl"))
          /\ PostDonationsDepositOn(c, Reply(TRUE, body))) =>
         /\ DbHas(c.donationId)'
         /\ DbGet(c.donationId)'.copyPaste = Get(body, "qrCodeUrl")
         /\ DbGet(c.donationId)'.qrCodeUrl = Null]_vars

\* the login answered a non-success status, or a response without a token
TokenNotObtained(reply) ==
  /\ reply.fetch = "resolved"
  /\ \/ ~reply.ok
     \/ reply.body = NotJson
     \/ ~Truthy(Get(reply.body, "token"))

\* C18: when the login answers a non-success status or no token, the
\* creation or sync that asked for it fails with 502 and sends the provider
\* nothing more; every handler that has posted a charge or a status query
\* holds a token.
C18_NoRequestWithoutToken ==
  [][/\ \A c \in BagToSet(inflight) : \A reply \in AuthReplies :
          (TokenNotObtained(reply)
             /\ (CreateAuthStep(c, reply) \/ PostSyncAuthOn(c, reply))) =>
            /\ last'.kind = c.kind /\ last'.code = 502
            /\ inflight' = inflight (-) SetToBag({c})
     /\ \A d \in BagToSet(inflight') :
          d.pc \in {"deposit", "status"} => Truthy(d.token)]_vars

\* C19: a webhook for a recognized transaction whose status is not
\* COMPLETED, and a sync whose status query answers anything but COMPLETED
\* (or no status), change no record, send no order and answer 200, the sync
\* with the record's current status.
C19_OnlyCompletedApplies ==
  [][/\ \A ev \in WebhookEvents :
          (TxRecognized(ev.transaction_id) /\ ev.status # COMPLETED
             /\ PostWebhookOn(ev)) =>
            /\ last' = [kind |-> "webhook", req |-> ev, code |-> 200,
                        applied |-> FALSE]
            /\ inflight' = inflight
            /\ db' = db
            /\ utmify' = utmify
     /\ \A c \in BagToSet(inflight) : \A reply \in StatusReplies :
          (~StatusQueryFails(reply) /\ Get(reply.body, "status") # COMPLETED
             /\ PostSyncStatusOn(c, reply)) =>
            /\ last'.kind = "sync" /\ last'.req = c.id /\ last'.code = 200
            /\ last'.status = DbGet(c.id).status
            /\ db' = db
            /\ utmify' = utmify]_vars

\* C19 witness: a PENDING webhook answered 200 for a donation that is
\* still pending, with no paid order sent
C19_Witness ==
  /\ last.kind = "webhook" /\ last.code = 200 /\ ~last.applied
  /\ last.req.status = PENDING
  /\ \E k \in Rows :
       /\ db[k].veopagTxId = last.req.transaction_id
       /\ db[k].status = "pending"
       /\ PaidOrders(db[k].id) = {}

\* the records the step changed
Changed == {k \in Rows : k > Len(db') \/ db'[k] # db[k]}

\* the step added and removed no record and changed at most one, among the
\* records at the positions in S
TouchesOnly(S) ==
  /\ Len(db') = Len(db)
  /\ Changed \subseteq S
  /\ Cardinality(Changed) <= 1

\* C20: every step keeps every stored record in place with all its fields
\* but status; a webhook changes at most the one record it matched and a
\* sync at most the record it was asked for, adding and removing none; the
\* other steps of webhook and sync, and GET /donations/:id, change no
\* record, and the GET changes nothing else either.
C20_OnlyStatusChanges ==
  [][/\ \A k \in Rows :
          /\ k <= Len(db')
          /\ db'[k] = [db[k] EXCEPT !.status = db'[k].status]
     /\ \A ev \in WebhookEvents :
          PostWebhookOn(ev) =>
            TouchesOnly({k \in Rows : db[k].veopagTxId = ev.transaction_id})
     /\ \A c \in BagToSet(inflight) :
          /\ \A reply \in StatusReplies :
               PostSyncStatusOn(c, reply) => TouchesOnly({k \in Rows : db[k].id = c.id})
          /\ \A reply \in AuthReplies : PostSyncAuthOn(c, reply) => db' = db
          /\ \A reply \in UtmifyReplies :
               (PostWebhookDoneOn(c, reply) \/ PostSyncDoneOn(c, reply)) => db' = db
     /\ \A id \in KnownIds :
          /\ PostSyncOn(id) => db' = db
          /\ GetDonationOn(id) => db' = db /\ utmify' = utmify /\ inflight' = inflight
    ]_vars

\* C20 witness: two donations stored, a webhook has just marked one paid
\* and the other is still pending
C20_Witness ==
  /\ last.kind = "webhook" /\ last.code = 200 /\ last.applied
  /\ Len(db) = 2
  /\ \E j \in Rows : \E k \in Rows :
       /\ db[j].status = "paid" /\ db[j].veopagTxId = last.req.transaction_id
       /\ db[k].status = "pending"

\* the step is a webhook carrying the transaction id of record k, or a
\* step of a sync of record k in which the provider's status arrives
ReconcilesRecord(k) ==
  \/ \E ev \in WebhookEvents :
       ev.transaction_id = db[k].veopagTxId /\ PostWebhookOn(ev)
  \/ \E c \in BagToSet(inflight) : \E reply \in StatusReplies :
       c.kind = "sync" /\ c.id = db[k].id /\ PostSyncStatusOn(c, reply)

\* record k has the same status and the same paid orders after the step
NotMarkedPaid(k) ==
  /\ k <= Len(db')
  /\ db'[k].status = db[k].status
  /\ PaidOrders(db[k].id)' = PaidOrders(db[k].id)

\* C21: a record goes from pending to paid, or gets a paid order, only in
\* a webhook with its own transaction id or in a sync of that donation; a
\* webhook whose status is not COMPLETED or whose transaction id is another
\* one, and a sync of another donation or one the provider did not answer
\* COMPLETED, leave its status and its paid orders as they were; a record
\* is never inserted as paid.
C21_PaidOnlyOnCompletion ==
  [][/\ \A k \in Rows : ~NotMarkedPaid(k) => ReconcilesRecord(k)
     /\ \A ev \in WebhookEvents :
          PostWebhookOn(ev) =>
            \A k \in Rows :
              (ev.status # COMPLETED \/ ev.transaction_id # db[k].veopagTxId) =>
                NotMarkedPaid(k)
     /\ \A c \in BagToSet(inflight) : \A reply \in StatusReplies :
          PostSyncStatusOn(c, reply) =>
            \A k \in Rows :
              (c.id # db[k].id \/ ~StatusReplyCompleted(reply)) => NotMarkedPaid(k)
     /\ \A k \in 1..Len(db') : k > Len(db) => db'[k].status = "pending"]_vars

\* C21 witness: a sync has just marked one donation paid while a donation
\* with another transaction id is still pending with no paid order
C21_Witness ==
  /\ last.kind = "sync" /\ last.code = 200 /\ last.applied
  /\ DbGet(last.req).status = "paid"
  /\ \E k \in Rows :
       /\ db[k].veopagTxId # DbGet(last.req).veopagTxId
       /\ db[k].status = "pending"
       /\ PaidOrders(db[k].id) = {}

\* the 'waiting_payment' orders sent for donation id
WaitingOrders(id) ==
  {i \in 1..Len(utmify) :
     utmify[i].status = "waiting_payment" /\ utmify[i].orderId = <<"donation_", id>>}

\* C22: every stored donation, from the state in which webhook and sync can
\* first find it, has its waiting order sent, and that order comes before
\* every paid order of the donation.
C22_WaitingBeforePaid ==
  \A k \in Rows :
    \E j \in WaitingOrders(db[k].id) :
      \A i \in PaidOrders(db[k].id) : j < i

\* C22 witness: a webhook has sent the paid order of a donation whose
\* creation handler still awaits the answer to the waiting order
C22_Witness ==
  \E c \in BagToSet(inflight) :
    /\ c.kind = "create" /\ c.pc = "utmify"
    /\ DbHas(c.donationId) /\ DbGet(c.donationId).status = "paid"
    /\ PaidOrders(c.donationId) # {}

\* a creation is in flight that has not stored its record yet
CreationInFlight ==
  \E c \in BagToSet(inflight) :
    c.kind = "create" /\ c.pc \in {"auth", "deposit"} /\ ~DbHas(c.donationId)

\* C23: when a creation answers 201 with donation id d and transaction id
\* t, the record of d is in the store with transaction id t, and was before
\* the answer; a stored record stays, so a later GET answers 200 and a later
\* sync or webhook for it is not answered 404; a webhook handled while the
\* creation has not stored its record, for a transaction id no record has,
\* answers 404 and changes nothing.
C23_CreatedThenVisible ==
  [][/\ \A c \in BagToSet(inflight) : \A reply \in UtmifyReplies :
          PostDonationsDoneOn(c, reply) =>
            /\ last'.code = 201 /\ last'.donationId = c.donationId
            /\ DbHas(c.donationId)
            /\ DbGet(c.donationId).veopagTxId = last'.transactionId
            /\ db' = db
     /\ \A k \in Rows :
          /\ k <= Len(db')
          /\ db'[k].id = db[k].id /\ db'[k].veopagTxId = db[k].veopagTxId
          /\ GetDonationOn(db[k].id) => last'.code = 200
          /\ PostSyncOn(db[k].id) => last' = NoResponse
          /\ \A ev \in WebhookEvents :
               (ev.transaction_id = db[k].veopagTxId /\ PostWebhookOn(ev)) =>
                 ~(last'.kind = "webhook" /\ last'.code = 404)
     /\ \A ev \in WebhookEvents :
          (CreationInFlight /\ ~TxRecognized(ev.transaction_id) /\ PostWebhookOn(ev)) =>
            /\ last'.kind = "webhook" /\ last'.code = 404
            /\ db' = db
            /\ utmify' = utmify]_vars

\* C23 witness: a COMPLETED webhook answered 404 while the creation that
\* will store its transaction id still awaits the charge
C23_Witness ==
  /\ last.kind = "webhook" /\ last.code = 404
  /\ last.req.status = COMPLETED
  /\ last.req.transaction_id \in {TxId(1), TxId(2)}
  /\ db = <<>>
  /\ \E c \in BagToSet(inflight) : c.kind = "create" /\ c.pc = "deposit"
====
